---- MODULE Spec2Model ----
(***************************************************************************)
(* Model of the voice-analysis Telegram bot in src/src/bot/__init__.py.    *)
(*                                                                         *)
(* Strings are finite sequences of one-character strings, so that lower(), *)
(* strip() and split() are computed rather than assumed.  Durations are    *)
(* natural numbers and the ratios of get_result_percentages are exact      *)
(* fractions [n, d] (Python computes them in floating point; the rounding  *)
(* error of the float arithmetic is not modelled).                         *)
(*                                                                         *)
(* Two specifications:                                                     *)
(*   Spec      the bot serving updates: one handler process whose position *)
(*             is pc, with every collaborator call a step whose outcome    *)
(*             (success, failure, returned timeline) is chosen by the      *)
(*             environment;                                                *)
(*   SpecPure  the two pure functions AnalyzeComponents.from_command and   *)
(*             get_result_percentages applied to inputs drawn in Init.     *)
(***************************************************************************)
EXTENDS Integers, Sequences, FiniteSets

VARIABLES u, handler, pc, cmd, flags, result, trace, exc,
          cmdIn, parsed, framesIn, ratios

vars == <<u, handler, pc, cmd, flags, result, trace, exc,
          cmdIn, parsed, framesIn, ratios>>

botVars == <<u, handler, pc, cmd, flags, result, trace, exc>>

pureVars == <<cmdIn, parsed, framesIn, ratios>>

(***************************************************************************)
(* Bounds of the model.                                                    *)
(***************************************************************************)
\* Largest number of frames in a timeline returned by the segmenter.
MaxFrames == 2

\* Largest time offset (in seconds) of a frame boundary.
MaxTime == 3

(***************************************************************************)
(* Python str helpers: lower(), strip(), split().                          *)
(***************************************************************************)
UpperAlpha ==
  <<"A","B","C","D","E","F","G","H","I","J","K","L","M",
    "N","O","P","Q","R","S","T","U","V","W","X","Y","Z">>

LowerAlpha ==
  <<"a","b","c","d","e","f","g","h","i","j","k","l","m",
    "n","o","p","q","r","s","t","u","v","w","x","y","z">>

Whitespace == {" ", "\t", "\n"}

LowerChar(c) ==
  IF \E i \in 1..26 : UpperAlpha[i] = c
    THEN LowerAlpha[CHOOSE i \in 1..26 : UpperAlpha[i] = c]
    ELSE c

UpperChar(c) ==
  IF \E i \in 1..26 : LowerAlpha[i] = c
    THEN UpperAlpha[CHOOSE i \in 1..26 : LowerAlpha[i] = c]
    ELSE c

\* str.lower()
Lower(s) == [i \in 1..Len(s) |-> LowerChar(s[i])]

\* str.upper(), used only to build mixed-case inputs
Upper(s) == [i \in 1..Len(s) |-> UpperChar(s[i])]

\* str.capitalize() on an all-lower-case word, used only to build inputs
Capitalize(s) == IF s = <<>> THEN s ELSE <<UpperChar(Head(s))>> \o Tail(s)

RECURSIVE LStrip(_)
LStrip(s) ==
  IF s # <<>> /\ Head(s) \in Whitespace THEN LStrip(Tail(s)) ELSE s

RECURSIVE RStrip(_)
RStrip(s) ==
  IF s # <<>> /\ s[Len(s)] \in Whitespace
    THEN RStrip(SubSeq(s, 1, Len(s) - 1))
    ELSE s

\* str.strip()
Strip(s) == RStrip(LStrip(s))

\* The first maximal run of non-whitespace characters of s (s has no leading
\* whitespace).
RECURSIVE TakeWord(_)
TakeWord(s) ==
  IF s = <<>> \/ Head(s) \in Whitespace
    THEN <<>>
    ELSE <<Head(s)>> \o TakeWord(Tail(s))

\* str.split() without arguments: the maximal runs of non-whitespace characters.
RECURSIVE Split(_)
Split(s) ==
  LET t == LStrip(s) IN
    IF t = <<>>
      THEN <<>>
      ELSE LET w == TakeWord(t) IN
             <<w>> \o Split(SubSeq(t, Len(w) + 1, Len(t)))

(***************************************************************************)
(* Command tokens.                                                         *)
(***************************************************************************)
W_analyze == <<"a","n","a","l","y","z","e">>
W_ml == <<"m","l">>
W_spectrogram == <<"s","p","e","c","t","r","o","g","r","a","m">>
W_formant == <<"f","o","r","m","a","n","t">>
W_pitch == <<"p","i","t","c","h">>
W_stats == <<"s","t","a","t","s">>
W_bogus == <<"b","o","g","u","s">>
W_start == <<"s","t","a","r","t">>

(***************************************************************************)
(* AnalyzeComponents.from_command                                          *)
(***************************************************************************)
AnalyzeComponents(ml, spect, stats) ==
  [ml |-> ml, spect |-> spect, stats |-> stats]

\* A plausible slip: the command is lower-cased but not stripped.
from_command_nostrip(c) ==
  LET s == Lower(c)
      full == s = W_analyze
  IN AnalyzeComponents(full \/ s \in {W_ml},
                       full \/ s \in {W_spectrogram, W_formant, W_pitch},
                       full \/ s \in {W_stats})

from_command(c) ==
  LET s == Strip(Lower(c))
      full == s = W_analyze
  IN AnalyzeComponents(full \/ s \in {W_ml},
                       full \/ s \in {W_spectrogram, W_formant, W_pitch},
                       full \/ s \in {W_stats})

(***************************************************************************)
(* Exact fractions with a positive denominator.                            *)
(***************************************************************************)
Rat(n, d) == [n |-> n, d |-> d]

RAdd(a, b) == Rat(a.n * b.d + b.n * a.d, a.d * b.d)

RSub(a, b) == Rat(a.n * b.d - b.n * a.d, a.d * b.d)

\* a / b for b > 0
RDiv(a, b) == Rat(a.n * b.d, a.d * b.n)

REq(a, b) == a.n * b.d = b.n * a.d

RLe(a, b) == a.n * b.d <= b.n * a.d

RZero == Rat(0, 1)

ROne == Rat(1, 1)

(***************************************************************************)
(* ResultFrame timelines and get_result_percentages.                       *)
(***************************************************************************)
Labels == {"female", "male", "noEnergy", "noise"}

ResultFrame(label, start, end) == [label |-> label, start |-> start, end |-> end]

\* Frames whose duration is at least minDur.
FramesOf(minDur) ==
  {fr \in [label : Labels, start : 0..MaxTime, end : 0..MaxTime] :
     fr.end - fr.start >= minDur}

\* Chronological, non-overlapping timelines of at most MaxFrames frames.
TimelinesOf(minDur) ==
  UNION {{tl \in [1..k -> FramesOf(minDur)] :
            \A i \in 1..(k - 1) : tl[i].end <= tl[i + 1].start}
         : k \in 0..MaxFrames}

\* The sum of end - start over the frames of tl that satisfy the label test.
RECURSIVE SumDur(_, _)
SumDur(tl, labs) ==
  IF tl = <<>>
    THEN 0
    ELSE (IF Head(tl).label \in labs THEN Head(tl).end - Head(tl).start ELSE 0)
           + SumDur(Tail(tl), labs)

NoExc == [type |-> "none", msg |-> "", at |-> "none"]

Exc(type, msg, at) == [type |-> type, msg |-> msg, at |-> at]

Ratios(f, m, o, pf) == [exc |-> NoExc, f |-> f, m |-> m, o |-> o, pf |-> pf]

Raised(e) == [exc |-> e, f |-> RZero, m |-> RZero, o |-> RZero, pf |-> RZero]

\* A version that rejects a zero total duration with the user-visible failure.
get_result_percentages_guarded(res) ==
  LET total_dur == SumDur(res, Labels)
      keys == {res[i].label : i \in 1..Len(res)}
      durations == [l \in keys |-> SumDur(res, {l})]
      get(l) == IF l \in keys THEN Rat(durations[l], total_dur) ELSE RZero
  IN IF total_dur = 0
       THEN Raised(Exc("AssertionError", "analysis-failed", "get_result_percentages"))
       ELSE LET f == get("female")
                m == get("male")
                fm_total == RAdd(f, m)
                pf == IF fm_total.n = 0 THEN RZero ELSE RDiv(f, fm_total)
            IN Ratios(f, m, RSub(RSub(ROne, f), m), pf)

\* A version that reads "other" as a category of its own.
get_result_percentages_summed(res) ==
  LET total_dur == SumDur(res, Labels)
      keys == {res[i].label : i \in 1..Len(res)}
      durations == [l \in keys |-> SumDur(res, {l})]
      get(l) == IF l \in keys THEN Rat(durations[l], total_dur) ELSE RZero
  IN IF keys # {} /\ total_dur = 0
       THEN Raised(Exc("ZeroDivisionError", "", "get_result_percentages"))
       ELSE LET f == get("female")
                m == get("male")
                fm_total == RAdd(f, m)
                pf == IF fm_total.n = 0 THEN RZero ELSE RDiv(f, fm_total)
            IN Ratios(f, m, get("noEnergy"), pf)

get_result_percentages(res) ==
  LET total_dur == SumDur(res, Labels)
      keys == {res[i].label : i \in 1..Len(res)}
      durations == [l \in keys |-> SumDur(res, {l})]
      \* durations[d] /= total_dur, then durations.get(l, 0)
      get(l) == IF l \in keys THEN Rat(durations[l], total_dur) ELSE RZero
  IN IF keys # {} /\ total_dur = 0
       THEN Raised(Exc("ZeroDivisionError", "", "get_result_percentages"))
       ELSE LET f == get("female")
                m == get("male")
                fm_total == RAdd(f, m)
                pf == IF fm_total.n = 0 THEN RZero ELSE RDiv(f, fm_total)
            IN Ratios(f, m, RSub(RSub(ROne, f), m), pf)

(***************************************************************************)
(* Telegram updates.                                                       *)
(*                                                                         *)
(* text is <<>> for a message without text (None or '' in Python: both are *)
(* falsy at line 130); media is the payload of the message itself and      *)
(* replyMedia / replyFrom describe reply_to_message.                       *)
(***************************************************************************)
Media == {"none", "audio", "voice"}

UserIds == {1, 2}

Update(isReply, private, text, media, userId, replyMedia, replyFrom) ==
  [isReply |-> isReply, private |-> private, text |-> text, media |-> media,
   userId |-> userId, replyMedia |-> replyMedia, replyFrom |-> replyFrom]

NoUpdate == Update(FALSE, FALSE, <<>>, "none", 0, "none", 0)

Texts ==
  {<<"/">> \o W_analyze, <<"!">> \o W_ml, <<"/">> \o W_formant,
   <<"!">> \o W_pitch, <<"/">> \o W_stats, <<"/">> \o W_spectrogram,
   <<"!">> \o Upper(W_ml),
   <<" ", "/">> \o Capitalize(W_analyze) \o <<" ">> \o W_bogus,
   W_analyze, <<"#">> \o W_ml, <<"/">> \o W_bogus, <<"/">> \o W_start,
   <<" ">>, <<"!">>, W_bogus \o <<" ">> \o W_ml}

\* A message carries either text or a media payload.
Contents ==
  {[text |-> t, media |-> "none"] : t \in Texts}
    \cup {[text |-> <<>>, media |-> m] : m \in {"audio", "voice"}}

\* The requesting user is user 1; the replied-to message is from user 1 or 2.
Updates ==
  {Update(TRUE, p, c.text, c.media, 1, rm, rf) :
     p \in BOOLEAN, c \in Contents, rm \in Media, rf \in UserIds}
    \cup {Update(FALSE, p, c.text, c.media, 1, "none", 0) :
            p \in BOOLEAN, c \in Contents}

(***************************************************************************)
(* Outbound messages and collaborator calls, in the order they happen.     *)
(***************************************************************************)
Event(kind, name, pct) == [kind |-> kind, name |-> name, pct |-> pct]

Call(name) == Event("call", name, <<>>)

Text(msg) == Event("text", msg, <<>>)

Photo(pct) == Event("photo", "ml", pct)

Document == Event("document", "spectrogram.jpg", <<>>)

MsgWelcome == "welcome"

MsgEmptyResult == "analysis-failed-too-quiet-or-too-short"

MsgNotOwner == "only-the-sender-can-analyze-their-audio"

\* The number of events of tr of a kind, and of calls of tr to a name.
Count(tr, kind) == Cardinality({i \in 1..Len(tr) : tr[i].kind = kind})

Calls(tr, name) ==
  Cardinality({i \in 1..Len(tr) : tr[i].kind = "call" /\ tr[i].name = name})

(***************************************************************************)
(* The handlers registered on the dispatcher, first match wins.            *)
(***************************************************************************)
IsCommand(text, name) ==
  /\ text # <<>>
  /\ Head(text) = "/"
  /\ Lower(Tail(Split(text)[1])) = name

Dispatch(upd) ==
  IF upd.private /\ IsCommand(upd.text, W_start) THEN "cmd_start"
  ELSE IF upd.isReply /\ IsCommand(upd.text, W_analyze) THEN "cmd_reply"
  ELSE IF upd.isReply THEN "cmd_reply"
  ELSE IF upd.media = "voice" /\ upd.private THEN "on_audio"
  ELSE IF upd.media = "audio" /\ upd.private THEN "on_audio"
  ELSE "none"

(***************************************************************************)
(* The except clause of cmd_reply and on_audio: an AssertionError is       *)
(* caught and its text, when not empty, is sent to the user; any other     *)
(* exception propagates out of the handler.                                *)
(***************************************************************************)
HandlerExcept(e, tr) ==
  IF e.type = "AssertionError" /\ e.msg # ""
    THEN Append(tr, Text(e.msg))
    ELSE tr

Reset(upd, h) ==
  /\ pc = "idle"
  /\ Dispatch(upd) = h
  /\ u' = upd
  /\ handler' = h
  /\ result' = <<>>

\* The call named by e.at was made and raised e, which the except clause
\* handles; the handler goes on at next.
RaiseTo(e, next) ==
  /\ pc' = next
  /\ exc' = e
  /\ trace' = HandlerExcept(e, Append(trace, Call(e.at)))

Raise(e) == RaiseTo(e, "done")

(***************************************************************************)
(* cmd_start                                                               *)
(***************************************************************************)
CmdStart(upd) ==
  /\ Reset(upd, "cmd_start")
  /\ pc' = "done"
  /\ cmd' = <<>>
  /\ flags' = AnalyzeComponents(FALSE, FALSE, FALSE)
  /\ exc' = NoExc
  /\ trace' = <<Text(MsgWelcome)>>
  /\ UNCHANGED pureVars

(***************************************************************************)
(* cmd_reply, up to the download in process_audio.                         *)
(***************************************************************************)
ReplyCommands == {W_analyze, W_ml, W_formant, W_pitch, W_stats}

Checked(e, c) == [exc |-> e, cmd |-> c]

\* A command list that also admits every token from_command knows.
ReplyCheck_spectrogram(upd) ==
  LET text == upd.text
      words == Split(Lower(text))
      c0 == Strip(words[1])
      c == Tail(c0)
      bare == Exc("AssertionError", "", "cmd_reply")
  IN IF text = <<>> THEN Checked(bare, <<>>)
     ELSE IF words = <<>> THEN Checked(Exc("IndexError", "", "cmd_reply"), <<>>)
     ELSE IF c0[1] \notin {"!", "/"} THEN Checked(bare, <<>>)
     ELSE IF c \notin ReplyCommands \cup {W_spectrogram} THEN Checked(bare, <<>>)
     ELSE IF upd.replyMedia = "none" THEN Checked(bare, <<>>)
     ELSE IF upd.userId # upd.replyFrom
       THEN Checked(Exc("AssertionError", MsgNotOwner, "cmd_reply"), <<>>)
     ELSE Checked(NoExc, c)

\* A version without the ownership check.
ReplyCheck_anyone(upd) ==
  LET text == upd.text
      words == Split(Lower(text))
      c0 == Strip(words[1])
      c == Tail(c0)
      bare == Exc("AssertionError", "", "cmd_reply")
  IN IF text = <<>> THEN Checked(bare, <<>>)
     ELSE IF words = <<>> THEN Checked(Exc("IndexError", "", "cmd_reply"), <<>>)
     ELSE IF c0[1] \notin {"!", "/"} THEN Checked(bare, <<>>)
     ELSE IF c \notin ReplyCommands THEN Checked(bare, <<>>)
     ELSE IF upd.replyMedia = "none" THEN Checked(bare, <<>>)
     ELSE Checked(NoExc, c)

\* A version whose audio check carries a text for the user.
ReplyCheck_loud(upd) ==
  LET text == upd.text
      words == Split(Lower(text))
      c0 == Strip(words[1])
      c == Tail(c0)
      bare == Exc("AssertionError", "", "cmd_reply")
  IN IF text = <<>> THEN Checked(bare, <<>>)
     ELSE IF words = <<>> THEN Checked(Exc("IndexError", "", "cmd_reply"), <<>>)
     ELSE IF c0[1] \notin {"!", "/"} THEN Checked(bare, <<>>)
     ELSE IF c \notin ReplyCommands THEN Checked(bare, <<>>)
     ELSE IF upd.replyMedia = "none"
       THEN Checked(Exc("AssertionError", "no-audio", "cmd_reply"), <<>>)
     ELSE IF upd.userId # upd.replyFrom
       THEN Checked(Exc("AssertionError", MsgNotOwner, "cmd_reply"), <<>>)
     ELSE Checked(NoExc, c)

\* Lines 126-143: the checks before process_audio is called.
ReplyCheck(upd) ==
  LET text == upd.text
      words == Split(Lower(text))
      c0 == Strip(words[1])
      c == Tail(c0)
      bare == Exc("AssertionError", "", "cmd_reply")
  IN IF text = <<>> THEN Checked(bare, <<>>)
     ELSE IF words = <<>> THEN Checked(Exc("IndexError", "", "cmd_reply"), <<>>)
     ELSE IF c0[1] \notin {"!", "/"} THEN Checked(bare, <<>>)
     ELSE IF c \notin ReplyCommands THEN Checked(bare, <<>>)
     ELSE IF upd.replyMedia = "none" THEN Checked(bare, <<>>)
     ELSE IF upd.userId # upd.replyFrom
       THEN Checked(Exc("AssertionError", MsgNotOwner, "cmd_reply"), <<>>)
     ELSE Checked(NoExc, c)

\* process_audio, lines 103-104: msg.audio or msg.voice must be there.
AudioCheck(media) ==
  IF media = "none" THEN Exc("AssertionError", "", "process_audio") ELSE NoExc

CmdReply(upd) ==
  /\ Reset(upd, "cmd_reply")
  /\ flags' = AnalyzeComponents(FALSE, FALSE, FALSE)
  /\ LET chk == ReplyCheck(upd)
         e == IF chk.exc # NoExc THEN chk.exc ELSE AudioCheck(upd.replyMedia)
     IN /\ cmd' = chk.cmd
        /\ exc' = e
        /\ trace' = HandlerExcept(e, <<>>)
        /\ pc' = IF e = NoExc THEN "download" ELSE "done"
  /\ UNCHANGED pureVars

(***************************************************************************)
(* on_audio, up to the download in process_audio.                          *)
(***************************************************************************)
OnAudio(upd) ==
  /\ Reset(upd, "on_audio")
  /\ flags' = AnalyzeComponents(FALSE, FALSE, FALSE)
  /\ cmd' = W_analyze
  /\ LET e == AudioCheck(upd.media)
     IN /\ exc' = e
        /\ trace' = HandlerExcept(e, <<>>)
        /\ pc' = IF e = NoExc THEN "download" ELSE "done"
  /\ UNCHANGED pureVars

(***************************************************************************)
(* process_audio: the download, the flags and the two gated steps.         *)
(***************************************************************************)
Failure(at) == Exc("CollaborationFailure", "", at)

\* A version that never runs cmd_spect after cmd_ml.
AfterMl_skip(fl) == "done"

\* The position after cmd_ml returned: cmd_spect if flags.spect.
AfterMl(fl) == IF fl.spect THEN "extract" ELSE "done"

\* A version that runs cmd_ml whatever the flags say.
AfterDownload_ungated(fl) == "segment"

\* The position after the download: cmd_ml if flags.ml.
AfterDownload(fl) == IF fl.ml THEN "segment" ELSE AfterMl(fl)

Download(ok) ==
  /\ pc = "download"
  /\ IF ok
       THEN LET fl == from_command(cmd)
            IN /\ flags' = fl
               /\ trace' = Append(trace, Call("download"))
               /\ pc' = AfterDownload(fl)
               /\ exc' = NoExc
       ELSE /\ Raise(Failure("download"))
            /\ flags' = flags
  /\ UNCHANGED <<u, handler, cmd, result>>
  /\ UNCHANGED pureVars

(***************************************************************************)
(* cmd_ml                                                                  *)
(***************************************************************************)
\* The segmenter returns frames of positive duration.
Timelines == TimelinesOf(1)

\* A version in which cmd_spect still runs after cmd_ml raised.
MlRaised_independent(fl) == AfterMl(fl)

\* process_audio has no try around cmd_ml: what cmd_ml raises leaves
\* process_audio, and cmd_spect is not reached.
MlRaised(fl) == "done"

\* A version without the null case.
EmptyCheck_none(res) == NoExc

\* Line 70: assert len(result), with the text for the user.
EmptyCheck(res) ==
  IF Len(res) = 0 THEN Exc("AssertionError", MsgEmptyResult, "cmd_ml") ELSE NoExc

\* f"{x*100:.0f}": the nearest whole percent, ties to the even one.
Percent(x) ==
  LET n == 100 * x.n
      q == n \div x.d
      rem == n % x.d
  IN IF 2 * rem < x.d THEN q
     ELSE IF 2 * rem > x.d THEN q + 1
     ELSE IF q % 2 = 0 THEN q ELSE q + 1

Caption(p) == <<Percent(p.f), Percent(p.m), Percent(p.o)>>

\* Lines 66-70: segment(file) and the null case.
Segment(ok, tl) ==
  /\ pc = "segment"
  /\ IF ok
       THEN /\ result' = tl
            /\ LET e == EmptyCheck(tl)
                   tr == Append(trace, Call("segment"))
               IN IF e = NoExc
                    THEN /\ pc' = "draw_ml"
                         /\ trace' = tr
                         /\ exc' = exc
                    ELSE /\ pc' = MlRaised(flags)
                         /\ exc' = e
                         /\ trace' = HandlerExcept(e, tr)
       ELSE /\ RaiseTo(Failure("segment"), MlRaised(flags))
            /\ result' = result
  /\ UNCHANGED <<u, handler, cmd, flags>>
  /\ UNCHANGED pureVars

\* Lines 73-74: draw_ml(file, result), then get_result_percentages(result).
DrawMl(ok) ==
  /\ pc = "draw_ml"
  /\ IF ok
       THEN LET p == get_result_percentages(result)
                tr == trace \o <<Call("draw_ml"), Call("get_result_percentages")>>
            IN IF p.exc = NoExc
                 THEN /\ pc' = "send_photo"
                      /\ trace' = tr
                      /\ exc' = exc
                 ELSE /\ pc' = MlRaised(flags)
                      /\ exc' = p.exc
                      /\ trace' = HandlerExcept(p.exc, tr)
       ELSE RaiseTo(Failure("draw_ml"), MlRaised(flags))
  /\ UNCHANGED <<u, handler, cmd, flags, result>>
  /\ UNCHANGED pureVars

\* Lines 75-78: the caption and bot.send_photo.
SendPhoto(ok) ==
  /\ pc = "send_photo"
  /\ IF ok
       THEN /\ trace' = Append(trace, Photo(Caption(get_result_percentages(result))))
            /\ pc' = AfterMl(flags)
            /\ exc' = exc
       ELSE RaiseTo(Failure("send_photo"), MlRaised(flags))
  /\ UNCHANGED <<u, handler, cmd, flags, result>>
  /\ UNCHANGED pureVars

(***************************************************************************)
(* cmd_spect                                                               *)
(***************************************************************************)
\* Lines 83-90: decoding, the mel spectrogram and the pitch/formant curves.
Extract(ok) ==
  /\ pc = "extract"
  /\ IF ok
       THEN /\ trace' = Append(trace, Call("extract"))
            /\ pc' = "draw_mspect"
            /\ exc' = exc
       ELSE Raise(Failure("extract"))
  /\ UNCHANGED <<u, handler, cmd, flags, result>>
  /\ UNCHANGED pureVars

\* Lines 92-95: draw_mspect and the JPEG buffer.
DrawMspect(ok) ==
  /\ pc = "draw_mspect"
  /\ IF ok
       THEN /\ trace' = Append(trace, Call("draw_mspect"))
            /\ pc' = "send_document"
            /\ exc' = exc
       ELSE Raise(Failure("draw_mspect"))
  /\ UNCHANGED <<u, handler, cmd, flags, result>>
  /\ UNCHANGED pureVars

\* Lines 97-99: bot.send_document.
SendDocument(ok) ==
  /\ pc = "send_document"
  /\ IF ok
       THEN /\ trace' = Append(trace, Document)
            /\ pc' = "done"
            /\ exc' = exc
       ELSE Raise(Failure("send_document"))
  /\ UNCHANGED <<u, handler, cmd, flags, result>>
  /\ UNCHANGED pureVars

(***************************************************************************)
(* SpecPure: the pure functions applied to inputs drawn in the initial     *)
(* state.                                                                  *)
(***************************************************************************)
BaseTokens ==
  {W_analyze, W_ml, W_spectrogram, W_formant, W_pitch, W_stats, W_bogus,
   <<>>, <<"/">> \o W_ml, W_ml \o <<"s">>, W_analyze \o <<" ">> \o W_ml}

Paddings == {<<>>, <<" ">>, <<"\t", " ">>, <<"\n">>}

CmdInputs ==
  {l \o c \o r :
     l \in Paddings, r \in Paddings,
     c \in UNION {{w, Upper(w), Capitalize(w)} : w \in BaseTokens}}

\* Every chronological timeline, zero-duration frames included.
AnyTimelines == TimelinesOf(0)

NotParsed == [done |-> FALSE, flags |-> AnalyzeComponents(FALSE, FALSE, FALSE)]

NotComputed == [done |-> FALSE, out |-> Raised(NoExc)]

BotIdle ==
  /\ u = NoUpdate
  /\ handler = "none"
  /\ pc = "idle"
  /\ cmd = <<>>
  /\ flags = AnalyzeComponents(FALSE, FALSE, FALSE)
  /\ result = <<>>
  /\ trace = <<>>
  /\ exc = NoExc

PureIdle ==
  /\ cmdIn = <<>>
  /\ parsed = NotParsed
  /\ framesIn = <<>>
  /\ ratios = NotComputed

InitPure ==
  /\ BotIdle
  /\ \/ cmdIn \in CmdInputs /\ framesIn = <<>>
     \/ cmdIn = <<>> /\ framesIn \in AnyTimelines
  /\ parsed = NotParsed
  /\ ratios = NotComputed

ApplyFromCommand ==
  /\ ~parsed.done
  /\ parsed' = [done |-> TRUE, flags |-> from_command(cmdIn)]
  /\ UNCHANGED <<cmdIn, framesIn, ratios>>
  /\ UNCHANGED botVars

ApplyPercentages ==
  /\ ~ratios.done
  /\ ratios' = [done |-> TRUE, out |-> get_result_percentages(framesIn)]
  /\ UNCHANGED <<cmdIn, framesIn, parsed>>
  /\ UNCHANGED botVars

NextPure == ApplyFromCommand \/ ApplyPercentages

SpecPure == InitPure /\ [][NextPure]_vars

(***************************************************************************)
(* Spec: the bot serving updates.                                          *)
(***************************************************************************)
Init == BotIdle /\ PureIdle

\* The handler has returned to the dispatcher, which waits for the next
\* update; what the request held is discarded.
Return ==
  /\ pc = "done"
  /\ u' = NoUpdate
  /\ handler' = "none"
  /\ pc' = "idle"
  /\ cmd' = <<>>
  /\ flags' = AnalyzeComponents(FALSE, FALSE, FALSE)
  /\ result' = <<>>
  /\ trace' = <<>>
  /\ exc' = NoExc
  /\ UNCHANGED pureVars

Next ==
  \/ \E upd \in Updates : CmdStart(upd)
  \/ \E upd \in Updates : CmdReply(upd)
  \/ \E upd \in Updates : OnAudio(upd)
  \/ \E ok \in BOOLEAN : Download(ok)
  \/ \E ok \in BOOLEAN, tl \in Timelines : Segment(ok, tl)
  \/ \E ok \in BOOLEAN : DrawMl(ok)
  \/ \E ok \in BOOLEAN : SendPhoto(ok)
  \/ \E ok \in BOOLEAN : Extract(ok)
  \/ \E ok \in BOOLEAN : DrawMspect(ok)
  \/ \E ok \in BOOLEAN : SendDocument(ok)
  \/ Return

Spec == Init /\ [][Next]_vars

(***************************************************************************)
(* Properties.                                                             *)
(***************************************************************************)
Step1Sites == {"segment", "cmd_ml", "draw_ml", "get_result_percentages", "send_photo"}

Step2Sites == {"extract", "draw_mspect", "send_document"}

BothFlags == flags.ml /\ flags.spect

\* The first whitespace-delimited word of text, lower-cased, is '!' or '/'
\* followed by one of analyze, ml, formant, pitch, stats.
RecognisedReply(text) ==
  /\ Split(text) # <<>>
  /\ Lower(Split(text)[1]) \in
       {<<mk>> \o w : mk \in {"!", "/"},
                      w \in {W_analyze, W_ml, W_formant, W_pitch, W_stats}}

\* C1 as stated: in a request with both flags set, when the classification
\* step failed, the spectral step has still run and its document was sent.
C1_StepsIndependent ==
  (pc = "done" /\ BothFlags /\ exc.at \in Step1Sites)
    => (Calls(trace, "extract") = 1 /\ Count(trace, "document") = 1)

\* C1 amended: with both flags set, a failure of the classification step ends
\* the request (the spectral collaborator is not invoked and no document is
\* sent), and a failure of the spectral step leaves the image message of the
\* classification step, already sent, in place.
C1_FirstFailureEndsRequest ==
  /\ (BothFlags /\ exc.at \in Step1Sites)
       => /\ pc = "done"
          /\ Calls(trace, "extract") = 0
          /\ Calls(trace, "draw_mspect") = 0
          /\ Count(trace, "document") = 0
  /\ (BothFlags /\ exc.at \in Step2Sites)
       => /\ pc = "done"
          /\ Calls(trace, "segment") = 1
          /\ Count(trace, "photo") = 1
          /\ Count(trace, "document") = 0

C1_Witness ==
  /\ pc = "done"
  /\ handler = "on_audio"
  /\ BothFlags
  /\ result = <<>>
  /\ exc = Exc("AssertionError", MsgEmptyResult, "cmd_ml")
  /\ Calls(trace, "extract") = 0

\* C3: when the segmenter returned an empty timeline, the request is over
\* with no render call, no ratio computation and no image, and exactly one
\* text message, the failure text, was sent.
C3_EmptyTimelineStops ==
  (Calls(trace, "segment") = 1 /\ result = <<>> /\ exc # Failure("segment"))
    => /\ flags.ml
       /\ pc = "done"
       /\ Calls(trace, "draw_ml") = 0
       /\ Calls(trace, "get_result_percentages") = 0
       /\ Count(trace, "photo") = 0
       /\ Count(trace, "text") = 1
       /\ trace[Len(trace)] = Text(MsgEmptyResult)

C3_Witness ==
  /\ pc = "done"
  /\ handler = "cmd_reply"
  /\ cmd = W_ml
  /\ Calls(trace, "segment") = 1
  /\ result = <<>>
  /\ trace[Len(trace)] = Text(MsgEmptyResult)

\* C6: a recognised reply command to an audio message of another user is
\* rejected: the rejection text is the only thing that happens (no download,
\* no collaborator call, no image, no document).
C6_NotOwnerRejected ==
  (/\ handler = "cmd_reply"
   /\ RecognisedReply(u.text)
   /\ u.replyMedia # "none"
   /\ u.userId # u.replyFrom)
    => (pc = "done" /\ trace = <<Text(MsgNotOwner)>>)

C6_Witness ==
  /\ handler = "cmd_reply"
  /\ u.text = <<"/">> \o W_analyze
  /\ u.replyMedia = "voice"
  /\ u.userId # u.replyFrom
  /\ pc = "done"
  /\ trace = <<Text(MsgNotOwner)>>

\* C7 as stated: a recognised, marker-prefixed command replying to a message
\* without audio is reported to the user with a message.
C7_ExplicitMissingAudioReported ==
  (/\ handler = "cmd_reply"
   /\ pc = "done"
   /\ RecognisedReply(u.text)
   /\ u.replyMedia = "none")
    => Count(trace, "text") >= 1

\* C7 amended: a reply to a message without audio is silently ignored in
\* every case, the recognised marker-prefixed command included: nothing is
\* sent and nothing is called.
C7_MissingAudioSilent ==
  (handler = "cmd_reply" /\ u.replyMedia = "none")
    => (pc = "done" /\ trace = <<>>)

C7_Witness ==
  /\ handler = "cmd_reply"
  /\ pc = "done"
  /\ RecognisedReply(u.text)
  /\ u.replyMedia = "none"
  /\ u.userId = u.replyFrom
  /\ exc = Exc("AssertionError", "", "cmd_reply")
  /\ trace = <<>>

\* C8: the segmenter and the segment renderer are called only with
\* flags.ml, the spectral extractor and renderer only with flags.spect; a
\* formant or pitch request never reaches the classification side, and a
\* stats request calls no analysis collaborator, sends nothing and raises
\* nothing of its own.
C8_FlagsGateCollaborators ==
  /\ (Calls(trace, "segment") + Calls(trace, "draw_ml")
        + Calls(trace, "get_result_percentages") + Count(trace, "photo") > 0)
       => flags.ml
  /\ (Calls(trace, "extract") + Calls(trace, "draw_mspect")
        + Count(trace, "document") > 0)
       => flags.spect
  /\ cmd \in {W_formant, W_pitch}
       => /\ Calls(trace, "segment") = 0
          /\ Calls(trace, "draw_ml") = 0
          /\ Count(trace, "photo") = 0
  /\ cmd = W_stats
       => /\ \A i \in 1..Len(trace) : trace[i] = Call("download")
          /\ exc \in {NoExc, Failure("download")}
          /\ pc \in {"download", "done"}

C8_Witness ==
  /\ cmd = W_formant
  /\ pc = "done"
  /\ exc = NoExc
  /\ trace = <<Call("download"), Call("extract"), Call("draw_mspect"), Document>>

\* C9: in one request every collaborator is invoked at most once and at
\* most one image and one document are sent; a finished request with both
\* flags, a non-empty timeline and no failure has sent exactly one image and
\* exactly one document.
C9_OnePassNoRetry ==
  /\ \A name \in {"download", "segment", "draw_ml", "get_result_percentages",
                  "send_photo", "extract", "draw_mspect", "send_document"} :
       Calls(trace, name) <= 1
  /\ Count(trace, "photo") <= 1
  /\ Count(trace, "document") <= 1
  /\ (pc = "done" /\ BothFlags /\ result # <<>> /\ exc = NoExc)
       => (Count(trace, "photo") = 1 /\ Count(trace, "document") = 1)

C9_Witness ==
  /\ pc = "done"
  /\ BothFlags
  /\ result # <<>>
  /\ exc = NoExc
  /\ Count(trace, "photo") = 1
  /\ Count(trace, "document") = 1

\* C10: on the reply path a download or an analysis happens only for a
\* recognised marker-prefixed command replying to the requester's own audio;
\* otherwise nothing is called, and the only text ever sent is the ownership
\* rejection.  A reply "spectrogram" command never starts an analysis.
C10_ReplyGate ==
  handler = "cmd_reply" =>
    LET admitted == /\ RecognisedReply(u.text)
                    /\ u.replyMedia # "none"
                    /\ u.userId = u.replyFrom
    IN /\ Count(trace, "call") > 0 => admitted
       /\ ~admitted
            => /\ pc = "done"
               /\ Count(trace, "call") = 0
               /\ Count(trace, "photo") = 0
               /\ Count(trace, "document") = 0
               /\ Count(trace, "text") > 0
                    => /\ trace = <<Text(MsgNotOwner)>>
                       /\ u.userId # u.replyFrom
       /\ (Split(u.text) # <<>> /\ Tail(Lower(Split(u.text)[1])) = W_spectrogram)
            => (pc = "done" /\ trace = <<>>)

C10_Witness ==
  /\ handler = "cmd_reply"
  /\ u.text = <<"/">> \o W_spectrogram
  /\ u.replyMedia = "voice"
  /\ u.userId = u.replyFrom
  /\ pc = "done"
  /\ trace = <<>>

(***************************************************************************)
(* Properties of the pure functions, under SpecPure.                       *)
(***************************************************************************)
TotalIn == SumDur(framesIn, Labels)

TrimsTo(s, w) ==
  \E i \in 0..Len(s) :
    /\ i + Len(w) <= Len(s)
    /\ \A k \in 1..i : s[k] \in Whitespace
    /\ \A k \in 1..Len(w) : s[i + k] \in {w[k], UpperChar(w[k])}
    /\ \A k \in (i + Len(w) + 1)..Len(s) : s[k] \in Whitespace

\* C4: from_command maps the lower-cased, trimmed token: analyze to all
\* three flags, ml to ml only, spectrogram, formant and pitch to spect
\* only, stats to stats only, anything else to no flag.
C4_ParseTable ==
  parsed.done =>
    parsed.flags =
      (IF TrimsTo(cmdIn, W_analyze) THEN AnalyzeComponents(TRUE, TRUE, TRUE)
       ELSE IF TrimsTo(cmdIn, W_ml) THEN AnalyzeComponents(TRUE, FALSE, FALSE)
       ELSE IF \E w \in {W_spectrogram, W_formant, W_pitch} : TrimsTo(cmdIn, w)
         THEN AnalyzeComponents(FALSE, TRUE, FALSE)
       ELSE IF TrimsTo(cmdIn, W_stats) THEN AnalyzeComponents(FALSE, FALSE, TRUE)
       ELSE AnalyzeComponents(FALSE, FALSE, FALSE))

C4_Witness ==
  /\ parsed.done
  /\ cmdIn = <<" ", "S", "t", "a", "t", "s", " ">>
  /\ parsed.flags = AnalyzeComponents(FALSE, FALSE, TRUE)

\* C5: for a non-empty timeline of frames with end > start the ratios are
\* returned, female + male + other = 1, each lies in [0, 1], female and male
\* are their labels' durations over the total, and other is the share of all
\* frames labelled neither female nor male.
C5_RatiosSumToOne ==
  (/\ ratios.done
   /\ framesIn # <<>>
   /\ \A i \in 1..Len(framesIn) : framesIn[i].end > framesIn[i].start)
    => LET r == ratios.out IN
         /\ r.exc = NoExc
         /\ REq(RAdd(RAdd(r.f, r.m), r.o), ROne)
         /\ \A x \in {r.f, r.m, r.o} : RLe(RZero, x) /\ RLe(x, ROne)
         /\ REq(r.f, Rat(SumDur(framesIn, {"female"}), TotalIn))
         /\ REq(r.m, Rat(SumDur(framesIn, {"male"}), TotalIn))
         /\ REq(r.o, Rat(SumDur(framesIn, Labels \ {"female", "male"}), TotalIn))

C5_Witness ==
  /\ ratios.done
  /\ framesIn = <<ResultFrame("female", 0, 1), ResultFrame("noise", 1, 3)>>
  /\ ratios.out.exc = NoExc
  /\ REq(ratios.out.f, Rat(1, 3))
  /\ REq(ratios.out.o, Rat(2, 3))

====
